---- MODULE Spec2Model ----
(***************************************************************************)
(* Model of the dashboard and panel tool sets of directus-mcp              *)
(* (src/src/tools/dashboard-tools.ts and its tests).                       *)
(*                                                                         *)
(* A tool is a descriptor {name, inputSchema, toolsets, handler}; its      *)
(* wrapped handler takes a backend client and an argument object, calls    *)
(* one client method and returns an envelope {content: [{text}]}.  The     *)
(* client is the tests' mock: it records every call and settles it the     *)
(* way the environment chose (a response, or a thrown error).              *)
(***************************************************************************)
EXTENDS Integers, Sequences, FiniteSets, TLC

VARIABLES
    tool,      \* name of the tool whose handler ran last ("none" before any)
    args,      \* the argument object that handler was invoked with
    backend,   \* how the mock client settles a call during that invocation
    calls,     \* the calls the mock client recorded during that invocation
    result,    \* the envelope the wrapped handler returned
    invocations, \* the handler invocations made on this mock client, in order
    log        \* every call the mock client recorded since it was created

vars == <<tool, args, backend, calls, result, invocations, log>>

----------------------------------------------------------------------------
(* JavaScript values.  An object is the sequence of its <<key, value>>     *)
(* properties in insertion order, which is the order JSON.stringify and    *)
(* rest-destructuring follow.                                              *)

Undefined == [t |-> "undefined"]
Null      == [t |-> "null"]
Bool(b)   == [t |-> "boolean", b |-> b]
Num(n)    == [t |-> "number", n |-> n]
Str(s)    == [t |-> "string", s |-> s]
Arr(a)    == [t |-> "array", a |-> a]
Obj(o)    == [t |-> "object", o |-> o]

Keys(obj) == { obj.o[i][1] : i \in 1..Len(obj.o) }

HasKey(obj, k) == k \in Keys(obj)

\* obj[k]: the property's value, undefined when obj has no such property
Get(obj, k) ==
    IF HasKey(obj, k)
    THEN obj.o[CHOOSE i \in 1..Len(obj.o) : obj.o[i][1] = k][2]
    ELSE Undefined

\* const { k1, k2, ...rest } = obj: the other properties, order kept
Rest(obj, omit) == Obj(SelectSeq(obj.o, LAMBDA p : p[1] \notin omit))

----------------------------------------------------------------------------
(* JSON.stringify(value, null, space), for strings that need no escaping.  *)

RECURSIVE Spaces(_)
Spaces(n) == IF n = 0 THEN "" ELSE " " \o Spaces(n - 1)

Quote(s) == "\"" \o s \o "\""

RECURSIVE SerializeJSONProperty(_, _, _)
RECURSIVE SerializeJSONArray(_, _, _, _)
RECURSIVE SerializeJSONObject(_, _, _, _)

\* the elements from index i on, each on its line; undefined prints as null
SerializeJSONArray(a, i, indent, gap) ==
    LET item == IF a[i].t = "undefined" THEN "null"
                ELSE SerializeJSONProperty(a[i], indent, gap)
        sep  == IF gap = "" THEN "," ELSE ",\n" \o indent
    IN  IF i = Len(a) THEN item
        ELSE item \o sep \o SerializeJSONArray(a, i + 1, indent, gap)

\* the properties from index i on; o holds no undefined values
SerializeJSONObject(o, i, indent, gap) ==
    LET colon == IF gap = "" THEN ":" ELSE ": "
        item  == Quote(o[i][1]) \o colon \o SerializeJSONProperty(o[i][2], indent, gap)
        sep   == IF gap = "" THEN "," ELSE ",\n" \o indent
    IN  IF i = Len(o) THEN item
        ELSE item \o sep \o SerializeJSONObject(o, i + 1, indent, gap)

\* v is not undefined; indent is the indentation of the line v starts on
SerializeJSONProperty(v, indent, gap) ==
    LET stepback == indent
        inner    == indent \o gap
        open(c)  == IF gap = "" THEN c ELSE c \o "\n" \o inner
        close(c) == IF gap = "" THEN c ELSE "\n" \o stepback \o c
    IN  CASE v.t = "null"    -> "null"
          [] v.t = "boolean" -> IF v.b THEN "true" ELSE "false"
          [] v.t = "number"  -> ToString(v.n)
          [] v.t = "string"  -> Quote(v.s)
          [] v.t = "array"   ->
                IF v.a = <<>> THEN "[]"
                ELSE open("[") \o SerializeJSONArray(v.a, 1, inner, gap) \o close("]")
          [] v.t = "object"  ->
                LET props == SelectSeq(v.o, LAMBDA p : p[2].t # "undefined")
                IN  IF props = <<>> THEN "{}"
                    ELSE open("{") \o SerializeJSONObject(props, 1, inner, gap)
                         \o close("}")

\* JSON.stringify(value, null, space): a string, or undefined for undefined
JSONStringify(value, space) ==
    IF value.t = "undefined" THEN Undefined
    ELSE Str(SerializeJSONProperty(value, "", Spaces(space)))

----------------------------------------------------------------------------
(* The validation library: a schema is data, safeParse walks it.  Parsing  *)
(* an object keeps the properties its shape names (in the shape's order)   *)
(* and strips the others; an optional schema accepts undefined.            *)

ZString(min)    == [z |-> "string", min |-> min]
ZNumber         == [z |-> "number"]
ZBoolean        == [z |-> "boolean"]
ZRecord         == [z |-> "record"]
ZArray(element) == [z |-> "array", element |-> element]
ZOptional(s)    == [z |-> "optional", inner |-> s]
ZObject(shape)  == [z |-> "object", shape |-> shape]

Failure == [success |-> FALSE, data |-> Undefined]

Success(data) == [success |-> TRUE, data |-> data]

RECURSIVE SafeParse(_, _)
SafeParse(schema, v) ==
    CASE schema.z = "string" ->
            IF v.t = "string" /\ Len(v.s) >= schema.min THEN Success(v) ELSE Failure
      [] schema.z = "number" ->
            IF v.t = "number" THEN Success(v) ELSE Failure
      [] schema.z = "boolean" ->
            IF v.t = "boolean" THEN Success(v) ELSE Failure
      [] schema.z = "record" ->
            IF v.t = "object" THEN Success(v) ELSE Failure
      [] schema.z = "optional" ->
            IF v.t = "undefined" THEN Success(Undefined)
            ELSE SafeParse(schema.inner, v)
      [] schema.z = "array" ->
            IF v.t # "array" THEN Failure
            ELSE LET parsed == [i \in 1..Len(v.a) |-> SafeParse(schema.element, v.a[i])]
                 IN  IF \A i \in 1..Len(v.a) : parsed[i].success
                     THEN Success(Arr([i \in 1..Len(v.a) |-> parsed[i].data]))
                     ELSE Failure
      [] schema.z = "object" ->
            IF v.t # "object" THEN Failure
            ELSE LET shape  == schema.shape
                     parsed == [i \in 1..Len(shape) |->
                                   SafeParse(shape[i][2], Get(v, shape[i][1]))]
                     kept   == SelectSeq([i \in 1..Len(shape) |->
                                             <<shape[i][1], parsed[i].data>>],
                                         LAMBDA p : HasKey(v, p[1]))
                 IN  IF \A i \in 1..Len(shape) : parsed[i].success
                     THEN Success(Obj(kept))
                     ELSE Failure

----------------------------------------------------------------------------
(* validators.js: the shared primitive schemas.  The tests invoke the      *)
(* handlers with ids such as 'dash-1' and with {} and get the success      *)
(* result, so UuidSchema takes such strings and the query schemas are      *)
(* optional and add no default.                                            *)

UuidSchema   == ZString(0)
FieldsSchema == ZOptional(ZArray(ZString(0)))
FilterSchema == ZOptional(ZRecord)
SearchSchema == ZOptional(ZString(0))
SortSchema   == ZOptional(ZArray(ZString(0)))
LimitSchema  == ZOptional(ZNumber)
OffsetSchema == ZOptional(ZNumber)
MetaSchema   == ZOptional(ZString(0))

----------------------------------------------------------------------------
(* dashboard-tools.ts: the input schemas.                                  *)

ListDashboardsSchema ==
    ZObject(<< <<"fields", FieldsSchema>>,
               <<"filter", FilterSchema>>,
               <<"search", SearchSchema>>,
               <<"sort", SortSchema>>,
               <<"limit", LimitSchema>>,
               <<"offset", OffsetSchema>>,
               <<"meta", MetaSchema>> >>)

\* the schema with the id left optional
GetDashboardSchema_idOptional ==
    ZObject(<< <<"id", ZOptional(UuidSchema)>>,
               <<"fields", FieldsSchema>>,
               <<"meta", MetaSchema>> >>)

GetDashboardSchema ==
    ZObject(<< <<"id", UuidSchema>>,
               <<"fields", FieldsSchema>>,
               <<"meta", MetaSchema>> >>)

\* the schema with the name left optional and unconstrained
CreateDashboardSchema_nameOptional ==
    ZObject(<< <<"name", ZOptional(ZString(0))>>,
               <<"icon", ZOptional(ZString(0))>>,
               <<"note", ZOptional(ZString(0))>>,
               <<"color", ZOptional(ZString(0))>>,
               <<"user_created", ZOptional(UuidSchema)>>,
               <<"date_created", ZOptional(ZString(0))>> >>)

CreateDashboardSchema ==
    ZObject(<< <<"name", ZString(1)>>,
               <<"icon", ZOptional(ZString(0))>>,
               <<"note", ZOptional(ZString(0))>>,
               <<"color", ZOptional(ZString(0))>>,
               <<"user_created", ZOptional(UuidSchema)>>,
               <<"date_created", ZOptional(ZString(0))>> >>)

CreateDashboardsSchema ==
    ZObject(<< <<"dashboards", ZArray(CreateDashboardSchema)>> >>)

UpdateDashboardSchema ==
    ZObject(<< <<"id", UuidSchema>>,
               <<"name", ZOptional(ZString(0))>>,
               <<"icon", ZOptional(ZString(0))>>,
               <<"note", ZOptional(ZString(0))>>,
               <<"color", ZOptional(ZString(0))>> >>)

UpdateDashboardsSchema ==
    ZObject(<< <<"dashboards", ZArray(UpdateDashboardSchema)>> >>)

\* the schema holding the id to the 36 characters of a UUID
DeleteDashboardSchema_uuidLength ==
    ZObject(<< <<"id", ZString(36)>> >>)

DeleteDashboardSchema ==
    ZObject(<< <<"id", UuidSchema>> >>)

DeleteDashboardsSchema ==
    ZObject(<< <<"ids", ZArray(ZString(0))>> >>)

----------------------------------------------------------------------------
(* The backend client, as the tests mock it: a method records the call     *)
(* and returns a promise that settles the way `client` says, either        *)
(* [ok |-> TRUE, value |-> R] or [ok |-> FALSE, reason |-> E].             *)

Resolved(value)  == [ok |-> TRUE, value |-> value]
Rejected(reason) == [ok |-> FALSE, reason |-> reason]

Call(method, arguments) == [method |-> method, arguments |-> arguments]

\* `return client.method(...arguments)`: one call, settled as the call is
ClientCall(client, method, arguments) ==
    [calls |-> << Call(method, arguments) >>, settled |-> client]

----------------------------------------------------------------------------
(* dashboard-tools.ts: the handlers given to the tool factory, and the     *)
(* success messages of the two delete tools.                               *)

\* the handler adding a default page size when the caller gave none
list_dashboards_defaultLimit(client, a) ==
    ClientCall(client, "listDashboards",
               << IF HasKey(a, "limit") THEN a
                  ELSE Obj(a.o \o << << "limit", Num(100) >> >>) >>)

\* the handler answering from an earlier listing instead of calling again
list_dashboards_cached(client, a) ==
    LET hits == { i \in 1..Len(invocations) :
                     /\ invocations[i].tool = "list_dashboards"
                     /\ ~invocations[i].result.isError }
    IN  IF hits # { }
        THEN [calls |-> << >>,
              settled |-> invocations[CHOOSE i \in hits : TRUE].backend]
        ELSE ClientCall(client, "listDashboards", << a >>)

list_dashboards(client, a) ==
    ClientCall(client, "listDashboards", << a >>)

\* the handler without its `return`: the call is made, its response dropped
get_dashboard_noReturn(client, a) ==
    [calls   |-> << Call("getDashboard", << Get(a, "id"), Rest(a, {"id"}) >>) >>,
     settled |-> IF client.ok THEN Resolved(Undefined) ELSE client]

\* the handler passing the whole argument object as the query parameters
get_dashboard_passArgs(client, a) ==
    ClientCall(client, "getDashboard", << Get(a, "id"), a >>)

get_dashboard(client, a) ==
    LET id     == Get(a, "id")
        params == Rest(a, {"id"})
    IN  ClientCall(client, "getDashboard", << id, params >>)

create_dashboard(client, a) ==
    ClientCall(client, "createDashboard", << a >>)

\* the handler passing the wrapper object instead of the array in it
create_dashboards_wrapper(client, a) ==
    ClientCall(client, "createDashboards", << a >>)

create_dashboards(client, a) ==
    ClientCall(client, "createDashboards", << Get(a, "dashboards") >>)

\* the handler leaving the id in the data it sends
update_dashboard_keepsId(client, a) ==
    ClientCall(client, "updateDashboard", << Get(a, "id"), a >>)

update_dashboard(client, a) ==
    LET id   == Get(a, "id")
        data == Rest(a, {"id"})
    IN  ClientCall(client, "updateDashboard", << id, data >>)

update_dashboards(client, a) ==
    ClientCall(client, "updateDashboards", << Get(a, "dashboards") >>)

\* the handler not awaiting the call: a rejection never reaches the caller
delete_dashboard_notAwaited(client, a) ==
    [calls   |-> << Call("deleteDashboard", << Get(a, "id") >>) >>,
     settled |-> Resolved(Undefined)]

delete_dashboard(client, a) ==
    ClientCall(client, "deleteDashboard", << Get(a, "id") >>)

\* the handler deleting the dashboards one by one
delete_dashboards_oneByOne(client, a) ==
    [calls   |-> [i \in 1..Len(Get(a, "ids").a) |->
                     Call("deleteDashboard", << Get(a, "ids").a[i] >>)],
     settled |-> client]

\* the handler returning early, without a call, when there is nothing to delete
delete_dashboards_skipEmpty(client, a) ==
    IF Get(a, "ids").a = << >>
    THEN [calls |-> << >>, settled |-> Resolved(Undefined)]
    ELSE ClientCall(client, "deleteDashboards", << Get(a, "ids") >>)

delete_dashboards(client, a) ==
    ClientCall(client, "deleteDashboards", << Get(a, "ids") >>)

\* the message of the panel tool, copied
delete_dashboard_successMessage_panel(a) ==
    "Panel " \o Get(a, "id").s \o " deleted successfully"

delete_dashboard_successMessage(a) ==
    "Dashboard " \o Get(a, "id").s \o " deleted successfully"

\* the message counting the distinct ids
delete_dashboards_successMessage_distinct(a) ==
    ToString(Cardinality({ Get(a, "ids").a[i] : i \in 1..Len(Get(a, "ids").a) }))
        \o " dashboards deleted successfully"

delete_dashboards_successMessage(a) ==
    ToString(Len(Get(a, "ids").a)) \o " dashboards deleted successfully"

\* the eight tool descriptors, in the order of the array
\* the array with list_dashboards registered a second time
dashboardTools_listTwice ==
    << [factory |-> "createTool", name |-> "list_dashboards",
        inputSchema |-> ListDashboardsSchema, toolsets |-> << "dashboards" >>],
       [factory |-> "createTool", name |-> "get_dashboard",
        inputSchema |-> GetDashboardSchema, toolsets |-> << "dashboards" >>],
       [factory |-> "createTool", name |-> "create_dashboard",
        inputSchema |-> CreateDashboardSchema, toolsets |-> << "dashboards" >>],
       [factory |-> "createTool", name |-> "create_dashboards",
        inputSchema |-> CreateDashboardsSchema, toolsets |-> << "dashboards" >>],
       [factory |-> "createTool", name |-> "update_dashboard",
        inputSchema |-> UpdateDashboardSchema, toolsets |-> << "dashboards" >>],
       [factory |-> "createTool", name |-> "update_dashboards",
        inputSchema |-> UpdateDashboardsSchema, toolsets |-> << "dashboards" >>],
       [factory |-> "createActionTool", name |-> "delete_dashboard",
        inputSchema |-> DeleteDashboardSchema, toolsets |-> << "dashboards" >>],
       [factory |-> "createActionTool", name |-> "delete_dashboards",
        inputSchema |-> DeleteDashboardsSchema, toolsets |-> << "dashboards" >>],
       [factory |-> "createTool", name |-> "list_dashboards",
        inputSchema |-> ListDashboardsSchema, toolsets |-> << "dashboards" >>] >>

dashboardTools ==
    << [factory |-> "createTool", name |-> "list_dashboards",
        inputSchema |-> ListDashboardsSchema, toolsets |-> << "dashboards" >>],
       [factory |-> "createTool", name |-> "get_dashboard",
        inputSchema |-> GetDashboardSchema, toolsets |-> << "dashboards" >>],
       [factory |-> "createTool", name |-> "create_dashboard",
        inputSchema |-> CreateDashboardSchema, toolsets |-> << "dashboards" >>],
       [factory |-> "createTool", name |-> "create_dashboards",
        inputSchema |-> CreateDashboardsSchema, toolsets |-> << "dashboards" >>],
       [factory |-> "createTool", name |-> "update_dashboard",
        inputSchema |-> UpdateDashboardSchema, toolsets |-> << "dashboards" >>],
       [factory |-> "createTool", name |-> "update_dashboards",
        inputSchema |-> UpdateDashboardsSchema, toolsets |-> << "dashboards" >>],
       [factory |-> "createActionTool", name |-> "delete_dashboard",
        inputSchema |-> DeleteDashboardSchema, toolsets |-> << "dashboards" >>],
       [factory |-> "createActionTool", name |-> "delete_dashboards",
        inputSchema |-> DeleteDashboardsSchema, toolsets |-> << "dashboards" >>] >>

----------------------------------------------------------------------------
(* panel-tools.js, as its tests use it: the same eight operations on       *)
(* panels.                                                                 *)

ListPanelsSchema == ListDashboardsSchema

GetPanelSchema ==
    ZObject(<< <<"id", UuidSchema>>,
               <<"fields", FieldsSchema>>,
               <<"meta", MetaSchema>> >>)

CreatePanelSchema ==
    ZObject(<< <<"dashboard", UuidSchema>>,
               <<"name", ZString(1)>>,
               <<"icon", ZOptional(ZString(0))>>,
               <<"color", ZOptional(ZString(0))>>,
               <<"show_header", ZOptional(ZBoolean)>>,
               <<"note", ZOptional(ZString(0))>>,
               <<"type", ZString(1)>>,
               <<"position_x", ZNumber>>,
               <<"position_y", ZNumber>>,
               <<"width", ZNumber>>,
               <<"height", ZNumber>>,
               <<"options", ZOptional(ZRecord)>>,
               <<"user_created", ZOptional(UuidSchema)>>,
               <<"date_created", ZOptional(ZString(0))>> >>)

CreatePanelsSchema ==
    ZObject(<< <<"panels", ZArray(CreatePanelSchema)>> >>)

UpdatePanelSchema ==
    ZObject(<< <<"id", UuidSchema>>,
               <<"dashboard", ZOptional(UuidSchema)>>,
               <<"name", ZOptional(ZString(0))>>,
               <<"icon", ZOptional(ZString(0))>>,
               <<"color", ZOptional(ZString(0))>>,
               <<"show_header", ZOptional(ZBoolean)>>,
               <<"note", ZOptional(ZString(0))>>,
               <<"type", ZOptional(ZString(0))>>,
               <<"position_x", ZOptional(ZNumber)>>,
               <<"position_y", ZOptional(ZNumber)>>,
               <<"width", ZOptional(ZNumber)>>,
               <<"height", ZOptional(ZNumber)>>,
               <<"options", ZOptional(ZRecord)>> >>)

UpdatePanelsSchema ==
    ZObject(<< <<"panels", ZArray(UpdatePanelSchema)>> >>)

DeletePanelSchema ==
    ZObject(<< <<"id", UuidSchema>> >>)

DeletePanelsSchema ==
    ZObject(<< <<"ids", ZArray(ZString(0))>> >>)

list_panels(client, a) ==
    ClientCall(client, "listPanels", << a >>)

get_panel(client, a) ==
    ClientCall(client, "getPanel", << Get(a, "id"), Rest(a, {"id"}) >>)

create_panel(client, a) ==
    ClientCall(client, "createPanel", << a >>)

create_panels(client, a) ==
    ClientCall(client, "createPanels", << Get(a, "panels") >>)

update_panel(client, a) ==
    ClientCall(client, "updatePanel", << Get(a, "id"), Rest(a, {"id"}) >>)

update_panels(client, a) ==
    ClientCall(client, "updatePanels", << Get(a, "panels") >>)

delete_panel(client, a) ==
    ClientCall(client, "deletePanel", << Get(a, "id") >>)

delete_panels(client, a) ==
    ClientCall(client, "deletePanels", << Get(a, "ids") >>)

delete_panel_successMessage(a) ==
    "Panel " \o Get(a, "id").s \o " deleted successfully"

delete_panels_successMessage(a) ==
    ToString(Len(Get(a, "ids").a)) \o " panels deleted successfully"

panelTools ==
    << [factory |-> "createTool", name |-> "list_panels",
        inputSchema |-> ListPanelsSchema, toolsets |-> << "panels" >>],
       [factory |-> "createTool", name |-> "get_panel",
        inputSchema |-> GetPanelSchema, toolsets |-> << "panels" >>],
       [factory |-> "createTool", name |-> "create_panel",
        inputSchema |-> CreatePanelSchema, toolsets |-> << "panels" >>],
       [factory |-> "createTool", name |-> "create_panels",
        inputSchema |-> CreatePanelsSchema, toolsets |-> << "panels" >>],
       [factory |-> "createTool", name |-> "update_panel",
        inputSchema |-> UpdatePanelSchema, toolsets |-> << "panels" >>],
       [factory |-> "createTool", name |-> "update_panels",
        inputSchema |-> UpdatePanelsSchema, toolsets |-> << "panels" >>],
       [factory |-> "createActionTool", name |-> "delete_panel",
        inputSchema |-> DeletePanelSchema, toolsets |-> << "panels" >>],
       [factory |-> "createActionTool", name |-> "delete_panels",
        inputSchema |-> DeletePanelsSchema, toolsets |-> << "panels" >>] >>

----------------------------------------------------------------------------
(* Which handler and which success message each descriptor carries.        *)

dashboardHandler(name, client, a) ==
    CASE name = "list_dashboards"   -> list_dashboards(client, a)
      [] name = "get_dashboard"     -> get_dashboard(client, a)
      [] name = "create_dashboard"  -> create_dashboard(client, a)
      [] name = "create_dashboards" -> create_dashboards(client, a)
      [] name = "update_dashboard"  -> update_dashboard(client, a)
      [] name = "update_dashboards" -> update_dashboards(client, a)
      [] name = "delete_dashboard"  -> delete_dashboard(client, a)
      [] name = "delete_dashboards" -> delete_dashboards(client, a)

dashboardSuccessMessage(name, a) ==
    CASE name = "delete_dashboard"  -> delete_dashboard_successMessage(a)
      [] name = "delete_dashboards" -> delete_dashboards_successMessage(a)

panelHandler(name, client, a) ==
    CASE name = "list_panels"   -> list_panels(client, a)
      [] name = "get_panel"     -> get_panel(client, a)
      [] name = "create_panel"  -> create_panel(client, a)
      [] name = "create_panels" -> create_panels(client, a)
      [] name = "update_panel"  -> update_panel(client, a)
      [] name = "update_panels" -> update_panels(client, a)
      [] name = "delete_panel"  -> delete_panel(client, a)
      [] name = "delete_panels" -> delete_panels(client, a)

panelSuccessMessage(name, a) ==
    CASE name = "delete_panel"  -> delete_panel_successMessage(a)
      [] name = "delete_panels" -> delete_panels_successMessage(a)

Names(tools) == { tools[i].name : i \in 1..Len(tools) }

ConfigHandler(config, client, a) ==
    IF config.name \in Names(dashboardTools)
    THEN dashboardHandler(config.name, client, a)
    ELSE panelHandler(config.name, client, a)

ConfigSuccessMessage(config, a) ==
    IF config.name \in Names(dashboardTools)
    THEN dashboardSuccessMessage(config.name, a)
    ELSE panelSuccessMessage(config.name, a)

----------------------------------------------------------------------------
(* tool-helpers.js: the tool factory.  The wrapped handler validates the   *)
(* arguments, forwards the validated object to the handler, and turns what *)
(* comes back into the envelope: validate then forward; catch and          *)
(* stringify.                                                              *)

Error(name, message) == [name |-> name, message |-> message]

\* String(error)
ErrorToString(error) == error.name \o ": " \o error.message

ValidationError == Error("ZodError", "invalid arguments")

ToolResult(text) ==
    [isError |-> FALSE, content |-> << [type |-> "text", text |-> text] >>]

ErrorResult(error) ==
    [isError |-> TRUE,
     content |-> << [type |-> "text", text |-> Str(ErrorToString(error))] >>]

\* the factory forwarding the arguments unvalidated
createTool_unvalidated(config, client, a) ==
    LET run == ConfigHandler(config, client, a)
    IN  IF run.settled.ok
        THEN [calls |-> run.calls,
              result |-> ToolResult(JSONStringify(run.settled.value, 2))]
        ELSE [calls |-> run.calls, result |-> ErrorResult(run.settled.reason)]

\* the handler of a tool made by createTool: the response, serialized
createTool(config, client, a) ==
    LET parsed == SafeParse(config.inputSchema, a)
        run    == ConfigHandler(config, client, parsed.data)
    IN  IF ~parsed.success
        THEN [calls |-> << >>, result |-> ErrorResult(ValidationError)]
        ELSE IF run.settled.ok
        THEN [calls |-> run.calls,
              result |-> ToolResult(JSONStringify(run.settled.value, 2))]
        ELSE [calls |-> run.calls, result |-> ErrorResult(run.settled.reason)]

\* the handler of a tool made by createActionTool: the success message
createActionTool(config, client, a) ==
    LET parsed == SafeParse(config.inputSchema, a)
        run    == ConfigHandler(config, client, parsed.data)
    IN  IF ~parsed.success
        THEN [calls |-> << >>, result |-> ErrorResult(ValidationError)]
        ELSE IF run.settled.ok
        THEN [calls |-> run.calls,
              result |-> ToolResult(Str(ConfigSuccessMessage(config, parsed.data)))]
        ELSE [calls |-> run.calls, result |-> ErrorResult(run.settled.reason)]

\* tool.handler(client, args)
ToolHandler(config, client, a) ==
    IF config.factory = "createTool"
    THEN createTool(config, client, a)
    ELSE createActionTool(config, client, a)

\* tools.find((t) => t.name === name)
Find(tools, name) ==
    tools[CHOOSE i \in 1..Len(tools) :
             /\ tools[i].name = name
             /\ \A j \in 1..(i - 1) : tools[j].name # name]

----------------------------------------------------------------------------
(* The inputs: the argument objects the handlers are invoked with, valid   *)
(* and invalid, and the ways the backend settles a call.                   *)

\* longest array of a batch argument (dashboards, panels, ids)
MaxBatch == 2

\* every sequence over S of length at most n
SeqsUpTo(S, n) == UNION { [1..k -> S] : k \in 0..n }

\* spec is a sequence of <<key, values>>: every property list that gives
\* some of the keys, in order, a value of theirs
RECURSIVE PairsOver(_)
PairsOver(spec) ==
    IF spec = << >> THEN { << >> }
    ELSE LET rest == PairsOver(Tail(spec))
         IN  rest \cup { << << Head(spec)[1], v >> >> \o r :
                            v \in Head(spec)[2], r \in rest }

ObjectsOver(spec) == { Obj(ps) : ps \in PairsOver(spec) }

\* one property, always present
Prop(k, v) == << k, v >>

ListArgs ==
    ObjectsOver(<< <<"fields", { Arr(<< Str("id"), Str("name") >>) }>>,
                   <<"filter", { Obj(<< Prop("name",
                                    Obj(<< Prop("_contains", Str("sales")) >>)) >>) }>>,
                   <<"search", { Str("test"), Num(5) }>>,
                   <<"sort", { Arr(<< Str("-date_created") >>) }>>,
                   <<"limit", { Num(10), Str("ten") }>>,
                   <<"offset", { Num(0) }>>,
                   <<"meta", { Str("total_count") }>> >>)
    \cup { Null }

GetArgs(ids) ==
    ObjectsOver(<< <<"id", ids \cup { Num(1) }>>,
                   <<"fields", { Arr(<< Str("id"), Str("name") >>), Str("id") }>>,
                   <<"meta", { Str("total_count") }>> >>)
    \cup { Null }

DashboardIds == { Str("dash-1"), Str("dash-2") }

PanelIds == { Str("panel-1"), Str("panel-2") }

CreateDashboardArgs ==
    ObjectsOver(<< <<"name", { Str("New Dashboard"), Str(""), Num(7) }>>,
                   <<"icon", { Str("dashboard") }>>,
                   <<"note", { Str("Main sales metrics") }>>,
                   <<"color", { Str("#FF5722") }>>,
                   <<"user_created", { Str("user-uuid") }>>,
                   <<"date_created", { Str("2024-01-01T00:00:00Z") }>> >>)

UpdateDashboardArgs ==
    ObjectsOver(<< <<"id", DashboardIds>>,
                   <<"name", { Str("Updated Dashboard"), Str("") }>>,
                   <<"icon", { Str("analytics"), Num(3) }>>,
                   <<"note", { Str("note") }>>,
                   <<"color", { Str("#4CAF50") }>> >>)

CreatePanelArgs ==
    ObjectsOver(<< <<"dashboard", { Str("dash-1") }>>,
                   <<"name", { Str("New Panel") }>>,
                   <<"icon", { Str("chart") }>>,
                   <<"type", { Str("metric") }>>,
                   <<"position_x", { Num(0) }>>,
                   <<"position_y", { Num(0) }>>,
                   <<"width", { Num(3), Str("3") }>>,
                   <<"height", { Num(2) }>> >>)

UpdatePanelArgs ==
    ObjectsOver(<< <<"id", PanelIds>>,
                   <<"name", { Str("Updated Panel") }>>,
                   <<"show_header", { Bool(TRUE) }>>,
                   <<"position_x", { Num(1) }>>,
                   <<"width", { Num(8), Str("8") }>> >>)

\* the elements of the batches: valid ones, and ones their schema rejects
CreateDashboardElements ==
    { Obj(<< Prop("name", Str("Dashboard 1")), Prop("icon", Str("dashboard")) >>),
      Obj(<< Prop("name", Str("Dashboard 2")) >>),
      Obj(<< Prop("icon", Str("analytics")) >>),
      Obj(<< Prop("name", Str("")) >>) }

UpdateDashboardElements ==
    { Obj(<< Prop("id", Str("dash-1")), Prop("name", Str("Updated 1")) >>),
      Obj(<< Prop("color", Str("#FF9800")), Prop("id", Str("dash-2")) >>),
      Obj(<< Prop("name", Str("Updated 3")) >>) }

PanelRequired(name, x) ==
    << Prop("dashboard", Str("dash-1")), Prop("name", Str(name)),
       Prop("type", Str("metric")), Prop("position_x", Num(x)),
       Prop("position_y", Num(0)), Prop("width", Num(3)), Prop("height", Num(2)) >>

CreatePanelElements ==
    { Obj(PanelRequired("Panel 1", 0)),
      Obj(PanelRequired("Panel 2", 3)),
      Obj(Tail(PanelRequired("Panel 3", 6))) }

UpdatePanelElements ==
    { Obj(<< Prop("id", Str("panel-1")), Prop("name", Str("Updated 1")),
             Prop("position_x", Num(2)) >>),
      Obj(<< Prop("id", Str("panel-2")), Prop("height", Num(3)),
             Prop("width", Num(4)) >>),
      Obj(<< Prop("height", Num(5)) >>) }

\* {key: [...]} for every array over elements up to MaxBatch long, {} and
\* {key: <not an array>}
BatchArgs(key, elements) ==
    { Obj(<< Prop(key, Arr(a)) >>) : a \in SeqsUpTo(elements, MaxBatch) }
    \cup { Obj(<< >>), Obj(<< Prop(key, Str("all")) >>) }

DeleteArgs(ids) ==
    { Obj(<< Prop("id", id) >>) : id \in ids \cup { Num(1) } } \cup { Obj(<< >>) }

Responses ==
    { Obj(<< Prop("data", Arr(<< Obj(<< Prop("id", Str("dash-1")),
                                        Prop("name", Str("Dashboard 1")) >>),
                                 Obj(<< Prop("id", Str("dash-2")),
                                        Prop("color", Null) >>) >>)) >>),
      Obj(<< Prop("data", Arr(<< >>)) >>),
      Obj(<< Prop("success", Bool(TRUE)) >>),
      Num(2),
      Undefined }

Errors ==
    { Error("Error", "Network error"), Error("TypeError", "fetch failed") }

Clients == { Resolved(r) : r \in Responses } \cup { Rejected(e) : e \in Errors }

----------------------------------------------------------------------------
(* The state machine, as the tests drive it: beforeEach makes a fresh mock  *)
(* client, then one tool's handler is invoked on it,                       *)
(*   result = await tools.find((t) => t.name === name).handler(client, a)  *)
(* and the state holds what the mock recorded and what came back.          *)

NoResult == [isError |-> FALSE, content |-> << >>]

\* what the tests keep of one `await tool.handler(mockClient, args)`
Invocation(name, a, client, envelope) ==
    [tool |-> name, args |-> a, backend |-> client, result |-> envelope]

Init ==
    /\ tool = "none"
    /\ args = Undefined
    /\ backend = Resolved(Undefined)
    /\ calls = << >>
    /\ result = NoResult
    /\ invocations = << >>
    /\ log = << >>

\* beforeEach: a fresh mock client, nothing called, nothing returned
BeforeEach ==
    /\ tool # "none"
    /\ tool' = "none"
    /\ args' = Undefined
    /\ backend' = Resolved(Undefined)
    /\ calls' = << >>
    /\ result' = NoResult
    /\ invocations' = << >>
    /\ log' = << >>

ListDashboards ==
    /\ tool = "none"
    /\ \E a \in ListArgs, c \in Clients :
          LET run == ToolHandler(Find(dashboardTools, "list_dashboards"), c, a)
          IN  /\ tool' = "list_dashboards"
              /\ args' = a
              /\ backend' = c
              /\ calls' = run.calls
              /\ result' = run.result
              /\ invocations' = Append(invocations, Invocation(tool', args', backend', result'))
              /\ log' = log \o calls'

GetDashboard ==
    /\ tool = "none"
    /\ \E a \in GetArgs(DashboardIds), c \in Clients :
          LET run == ToolHandler(Find(dashboardTools, "get_dashboard"), c, a)
          IN  /\ tool' = "get_dashboard"
              /\ args' = a
              /\ backend' = c
              /\ calls' = run.calls
              /\ result' = run.result
              /\ invocations' = Append(invocations, Invocation(tool', args', backend', result'))
              /\ log' = log \o calls'

CreateDashboard ==
    /\ tool = "none"
    /\ \E a \in CreateDashboardArgs, c \in Clients :
          LET run == ToolHandler(Find(dashboardTools, "create_dashboard"), c, a)
          IN  /\ tool' = "create_dashboard"
              /\ args' = a
              /\ backend' = c
              /\ calls' = run.calls
              /\ result' = run.result
              /\ invocations' = Append(invocations, Invocation(tool', args', backend', result'))
              /\ log' = log \o calls'

CreateDashboards ==
    /\ tool = "none"
    /\ \E a \in BatchArgs("dashboards", CreateDashboardElements), c \in Clients :
          LET run == ToolHandler(Find(dashboardTools, "create_dashboards"), c, a)
          IN  /\ tool' = "create_dashboards"
              /\ args' = a
              /\ backend' = c
              /\ calls' = run.calls
              /\ result' = run.result
              /\ invocations' = Append(invocations, Invocation(tool', args', backend', result'))
              /\ log' = log \o calls'

UpdateDashboard ==
    /\ tool = "none"
    /\ \E a \in UpdateDashboardArgs, c \in Clients :
          LET run == ToolHandler(Find(dashboardTools, "update_dashboard"), c, a)
          IN  /\ tool' = "update_dashboard"
              /\ args' = a
              /\ backend' = c
              /\ calls' = run.calls
              /\ result' = run.result
              /\ invocations' = Append(invocations, Invocation(tool', args', backend', result'))
              /\ log' = log \o calls'

UpdateDashboards ==
    /\ tool = "none"
    /\ \E a \in BatchArgs("dashboards", UpdateDashboardElements), c \in Clients :
          LET run == ToolHandler(Find(dashboardTools, "update_dashboards"), c, a)
          IN  /\ tool' = "update_dashboards"
              /\ args' = a
              /\ backend' = c
              /\ calls' = run.calls
              /\ result' = run.result
              /\ invocations' = Append(invocations, Invocation(tool', args', backend', result'))
              /\ log' = log \o calls'

DeleteDashboard ==
    /\ tool = "none"
    /\ \E a \in DeleteArgs(DashboardIds), c \in Clients :
          LET run == ToolHandler(Find(dashboardTools, "delete_dashboard"), c, a)
          IN  /\ tool' = "delete_dashboard"
              /\ args' = a
              /\ backend' = c
              /\ calls' = run.calls
              /\ result' = run.result
              /\ invocations' = Append(invocations, Invocation(tool', args', backend', result'))
              /\ log' = log \o calls'

DeleteDashboards ==
    /\ tool = "none"
    /\ \E a \in BatchArgs("ids", DashboardIds \cup { Num(3) }), c \in Clients :
          LET run == ToolHandler(Find(dashboardTools, "delete_dashboards"), c, a)
          IN  /\ tool' = "delete_dashboards"
              /\ args' = a
              /\ backend' = c
              /\ calls' = run.calls
              /\ result' = run.result
              /\ invocations' = Append(invocations, Invocation(tool', args', backend', result'))
              /\ log' = log \o calls'

ListPanels ==
    /\ tool = "none"
    /\ \E a \in ListArgs, c \in Clients :
          LET run == ToolHandler(Find(panelTools, "list_panels"), c, a)
          IN  /\ tool' = "list_panels"
              /\ args' = a
              /\ backend' = c
              /\ calls' = run.calls
              /\ result' = run.result
              /\ invocations' = Append(invocations, Invocation(tool', args', backend', result'))
              /\ log' = log \o calls'

GetPanel ==
    /\ tool = "none"
    /\ \E a \in GetArgs(PanelIds), c \in Clients :
          LET run == ToolHandler(Find(panelTools, "get_panel"), c, a)
          IN  /\ tool' = "get_panel"
              /\ args' = a
              /\ backend' = c
              /\ calls' = run.calls
              /\ result' = run.result
              /\ invocations' = Append(invocations, Invocation(tool', args', backend', result'))
              /\ log' = log \o calls'

CreatePanel ==
    /\ tool = "none"
    /\ \E a \in CreatePanelArgs, c \in Clients :
          LET run == ToolHandler(Find(panelTools, "create_panel"), c, a)
          IN  /\ tool' = "create_panel"
              /\ args' = a
              /\ backend' = c
              /\ calls' = run.calls
              /\ result' = run.result
              /\ invocations' = Append(invocations, Invocation(tool', args', backend', result'))
              /\ log' = log \o calls'

CreatePanels ==
    /\ tool = "none"
    /\ \E a \in BatchArgs("panels", CreatePanelElements), c \in Clients :
          LET run == ToolHandler(Find(panelTools, "create_panels"), c, a)
          IN  /\ tool' = "create_panels"
              /\ args' = a
              /\ backend' = c
              /\ calls' = run.calls
              /\ result' = run.result
              /\ invocations' = Append(invocations, Invocation(tool', args', backend', result'))
              /\ log' = log \o calls'

UpdatePanel ==
    /\ tool = "none"
    /\ \E a \in UpdatePanelArgs, c \in Clients :
          LET run == ToolHandler(Find(panelTools, "update_panel"), c, a)
          IN  /\ tool' = "update_panel"
              /\ args' = a
              /\ backend' = c
              /\ calls' = run.calls
              /\ result' = run.result
              /\ invocations' = Append(invocations, Invocation(tool', args', backend', result'))
              /\ log' = log \o calls'

UpdatePanels ==
    /\ tool = "none"
    /\ \E a \in BatchArgs("panels", UpdatePanelElements), c \in Clients :
          LET run == ToolHandler(Find(panelTools, "update_panels"), c, a)
          IN  /\ tool' = "update_panels"
              /\ args' = a
              /\ backend' = c
              /\ calls' = run.calls
              /\ result' = run.result
              /\ invocations' = Append(invocations, Invocation(tool', args', backend', result'))
              /\ log' = log \o calls'

DeletePanel ==
    /\ tool = "none"
    /\ \E a \in DeleteArgs(PanelIds), c \in Clients :
          LET run == ToolHandler(Find(panelTools, "delete_panel"), c, a)
          IN  /\ tool' = "delete_panel"
              /\ args' = a
              /\ backend' = c
              /\ calls' = run.calls
              /\ result' = run.result
              /\ invocations' = Append(invocations, Invocation(tool', args', backend', result'))
              /\ log' = log \o calls'

DeletePanels ==
    /\ tool = "none"
    /\ \E a \in BatchArgs("ids", PanelIds \cup { Num(3) }), c \in Clients :
          LET run == ToolHandler(Find(panelTools, "delete_panels"), c, a)
          IN  /\ tool' = "delete_panels"
              /\ args' = a
              /\ backend' = c
              /\ calls' = run.calls
              /\ result' = run.result
              /\ invocations' = Append(invocations, Invocation(tool', args', backend', result'))
              /\ log' = log \o calls'

Next ==
    \/ BeforeEach
    \/ ListDashboards
    \/ GetDashboard
    \/ CreateDashboard
    \/ CreateDashboards
    \/ UpdateDashboard
    \/ UpdateDashboards
    \/ DeleteDashboard
    \/ DeleteDashboards
    \/ ListPanels
    \/ GetPanel
    \/ CreatePanel
    \/ CreatePanels
    \/ UpdatePanel
    \/ UpdatePanels
    \/ DeletePanel
    \/ DeletePanels

Spec == Init /\ [][Next]_vars

----------------------------------------------------------------------------
(* What the properties below read off a state.                             *)

AllTools == dashboardTools \o panelTools

Invoked == tool # "none"

\* the arguments of the last invocation satisfy its tool's input schema
Valid == Invoked /\ SafeParse(Find(AllTools, tool).inputSchema, args).success

\* result.content[0].text
Text == result.content[1].text

\* the one argument list the mock recorded
Forwarded == calls[1].arguments

\* the equality of expect(...).toHaveBeenCalledWith: arrays element by
\* element in order, objects property by property in any order
RECURSIVE DeepEqual(_, _)
DeepEqual(x, y) ==
    IF x.t # y.t THEN FALSE
    ELSE CASE x.t = "array" ->
                /\ Len(x.a) = Len(y.a)
                /\ \A i \in 1..Len(x.a) : DeepEqual(x.a[i], y.a[i])
           [] x.t = "object" ->
                /\ Keys(x) = Keys(y)
                /\ \A k \in Keys(x) : DeepEqual(Get(x, k), Get(y, k))
           [] OTHER -> x = y

----------------------------------------------------------------------------
(* C1: every dashboard tool, invoked with arguments its schema accepts,    *)
(* calls exactly one client method, exactly once, and it is the method     *)
(* matching the tool; no other client method is called.                    *)

C1_Method(name) ==
    CASE name = "list_dashboards"   -> "listDashboards"
      [] name = "get_dashboard"     -> "getDashboard"
      [] name = "create_dashboard"  -> "createDashboard"
      [] name = "create_dashboards" -> "createDashboards"
      [] name = "update_dashboard"  -> "updateDashboard"
      [] name = "update_dashboards" -> "updateDashboards"
      [] name = "delete_dashboard"  -> "deleteDashboard"
      [] name = "delete_dashboards" -> "deleteDashboards"

C1_OneMatchingCall ==
    (tool \in Names(dashboardTools) /\ Valid)
        => /\ Len(calls) = 1
           /\ calls[1].method = C1_Method(tool)

\* delete_dashboards ran on two ids and the client saw one deleteDashboards
C1_Witness ==
    /\ tool = "delete_dashboards"
    /\ Valid
    /\ Len(Get(args, "ids").a) = 2
    /\ Len(calls) = 1
    /\ calls[1].method = "deleteDashboards"

----------------------------------------------------------------------------
(* C2: for every non-delete tool, of dashboards and of panels, when the    *)
(* backend call succeeds with response R the result's content[0].text is   *)
(* JSON.stringify(R, null, 2), whatever the arguments were.                *)

C2_NonDeleteTools ==
    { "list_dashboards", "get_dashboard", "create_dashboard", "create_dashboards",
      "update_dashboard", "update_dashboards",
      "list_panels", "get_panel", "create_panel", "create_panels",
      "update_panel", "update_panels" }

C2_ResponseSerialized ==
    (tool \in C2_NonDeleteTools /\ Valid /\ backend.ok)
        => /\ ~result.isError
           /\ Len(result.content) = 1
           /\ Text = JSONStringify(backend.value, 2)
           /\ backend.value = Obj(<< Prop("data", Arr(<< >>)) >>)
                 => Text = Str("{\n  \"data\": []\n}")
           /\ backend.value = Obj(<< Prop("success", Bool(TRUE)) >>)
                 => Text = Str("{\n  \"success\": true\n}")

\* get_dashboard got a list of two dashboards back and returned it as text
C2_Witness ==
    /\ tool = "get_dashboard"
    /\ Valid
    /\ backend.ok
    /\ backend.value.t = "object"
    /\ Get(backend.value, "data").t = "array"
    /\ Len(Get(backend.value, "data").a) = 2
    /\ Text = JSONStringify(backend.value, 2)
    /\ Text.t = "string"

----------------------------------------------------------------------------
(* C3: validation comes before forwarding: when the arguments do not       *)
(* satisfy the tool's input schema, no client method is called and the     *)
(* handler returns an error result, not a success result.                  *)

----------------------------------------------------------------------------
(* C4: when the client method throws or rejects, the handler returns an    *)
(* error envelope whose text is the stringified error; the backend is not  *)
(* called a second time and the success text is never returned.            *)

C4_SuccessTexts ==
    { JSONStringify(r, 2) : r \in Responses }
    \cup { Str("Dashboard " \o id.s \o " deleted successfully") : id \in DashboardIds }
    \cup { Str("Panel " \o id.s \o " deleted successfully") : id \in PanelIds }
    \cup { Str(ToString(n) \o " dashboards deleted successfully") : n \in 0..(MaxBatch + 1) }
    \cup { Str(ToString(n) \o " panels deleted successfully") : n \in 0..(MaxBatch + 1) }

C4_RejectionEnveloped ==
    (Valid /\ ~backend.ok)
        => /\ result.isError
           /\ Text = Str(ErrorToString(backend.reason))
           /\ backend.reason = Error("Error", "Network error")
                 => Text = Str("Error: Network error")
           /\ Len(calls) = 1
           /\ Text \notin C4_SuccessTexts

\* delete_dashboard's call was rejected and the error came back as text
C4_Witness ==
    /\ tool = "delete_dashboard"
    /\ Valid
    /\ ~backend.ok
    /\ result.isError
    /\ Text = Str("TypeError: fetch failed")
    /\ Len(calls) = 1

----------------------------------------------------------------------------
(* C5: list_dashboards and list_panels forward their argument object       *)
(* unchanged: the object the client gets holds exactly the query           *)
(* parameters the caller supplied, with their values; {} is forwarded as   *)
(* {}, with no default added.                                              *)

C5_QueryParameters ==
    { "fields", "filter", "search", "sort", "limit", "offset", "meta" }

C5_ListForwardsArgs ==
    (tool \in { "list_dashboards", "list_panels" } /\ Valid)
        => /\ Len(calls) = 1
           /\ calls[1].method = IF tool = "list_dashboards" THEN "listDashboards"
                                ELSE "listPanels"
           /\ Len(Forwarded) = 1
           /\ Forwarded[1].t = "object"
           /\ Keys(Forwarded[1]) = Keys(args)
           /\ \A k \in C5_QueryParameters : Get(Forwarded[1], k) = Get(args, k)
           /\ DeepEqual(Forwarded[1], args)
           /\ args = Obj(<< >>) => Forwarded = << Obj(<< >>) >>

\* list_dashboards was invoked with {} and the client was called with {}
C5_Witness ==
    /\ tool = "list_dashboards"
    /\ args = Obj(<< >>)
    /\ calls = << Call("listDashboards", << Obj(<< >>) >>) >>

----------------------------------------------------------------------------
(* C6: get_dashboard and get_panel call the client with the id first and,  *)
(* second, an object holding exactly the other supplied arguments (fields, *)
(* meta) and never the key id; {} when only the id was supplied.           *)

C6_GetSplitsId ==
    (tool \in { "get_dashboard", "get_panel" } /\ Valid)
        => /\ Len(calls) = 1
           /\ calls[1].method = IF tool = "get_dashboard" THEN "getDashboard"
                                ELSE "getPanel"
           /\ Len(Forwarded) = 2
           /\ Forwarded[1] = Get(args, "id")
           /\ Forwarded[2].t = "object"
           /\ Keys(Forwarded[2]) = Keys(args) \ { "id" }
           /\ \A k \in { "fields", "meta" } : DeepEqual(Get(Forwarded[2], k), Get(args, k))
           /\ Keys(args) = { "id" } => Forwarded[2] = Obj(<< >>)

\* get_dashboard ran with id, fields and meta: the id went first, the rest second
C6_Witness ==
    /\ tool = "get_dashboard"
    /\ Valid
    /\ Keys(args) = { "id", "fields", "meta" }
    /\ Forwarded[1] = Str("dash-1")
    /\ Keys(Forwarded[2]) = { "fields", "meta" }

----------------------------------------------------------------------------
(* C7: update_dashboard and update_panel call the client with the id first *)
(* and, second, an object holding exactly the supplied fields other than   *)
(* id, each with its value unchanged; the key id is never in it.           *)

C7_UpdateSplitsId ==
    (tool \in { "update_dashboard", "update_panel" } /\ Valid)
        => /\ Len(calls) = 1
           /\ calls[1].method = IF tool = "update_dashboard" THEN "updateDashboard"
                                ELSE "updatePanel"
           /\ Len(Forwarded) = 2
           /\ Forwarded[1] = Get(args, "id")
           /\ Forwarded[2].t = "object"
           /\ ~HasKey(Forwarded[2], "id")
           /\ Keys(Forwarded[2]) = Keys(args) \ { "id" }
           /\ \A k \in Keys(args) \ { "id" } :
                 DeepEqual(Get(Forwarded[2], k), Get(args, k))

\* update_dashboard ran with id, name and color: the data holds name and color
C7_Witness ==
    /\ tool = "update_dashboard"
    /\ Valid
    /\ Keys(args) = { "id", "name", "color" }
    /\ Forwarded[1] = Str("dash-1")
    /\ Forwarded[2] = Obj(<< Prop("name", Str("Updated Dashboard")),
                             Prop("color", Str("#4CAF50")) >>)

----------------------------------------------------------------------------
(* C8: the batch tools create_dashboards, update_dashboards, create_panels *)
(* and update_panels make one client call for the whole batch and pass the *)
(* inner array, not the wrapper object, with the same elements in the same *)
(* order, whatever its length.                                             *)

C8_BatchKey(name) ==
    IF name \in { "create_dashboards", "update_dashboards" } THEN "dashboards"
    ELSE "panels"

C8_BatchMethod(name) ==
    CASE name = "create_dashboards" -> "createDashboards"
      [] name = "update_dashboards" -> "updateDashboards"
      [] name = "create_panels"     -> "createPanels"
      [] name = "update_panels"     -> "updatePanels"

C8_BatchUnwrapped ==
    (tool \in { "create_dashboards", "update_dashboards",
                "create_panels", "update_panels" } /\ Valid)
        => LET batch == Get(args, C8_BatchKey(tool))
           IN  /\ Len(calls) = 1
               /\ calls[1].method = C8_BatchMethod(tool)
               /\ Len(Forwarded) = 1
               /\ Forwarded[1].t = "array"
               /\ Len(Forwarded[1].a) = Len(batch.a)
               /\ \A i \in 1..Len(batch.a) : DeepEqual(Forwarded[1].a[i], batch.a[i])

\* create_dashboards ran on two different dashboards: one call, both in order
C8_Witness ==
    /\ tool = "create_dashboards"
    /\ Valid
    /\ Len(calls) = 1
    /\ Len(Forwarded[1].a) = 2
    /\ Get(Forwarded[1].a[1], "name") = Str("Dashboard 2")
    /\ Get(Forwarded[1].a[2], "name") = Str("Dashboard 1")

----------------------------------------------------------------------------
(* C9: delete_dashboard calls deleteDashboard with exactly the supplied id *)
(* and, when the call succeeds, returns 'Dashboard <id> deleted            *)
(* successfully' whatever the response is; delete_panel does the same with *)
(* deletePanel and 'Panel <id> deleted successfully'.                      *)

C9_DeleteOne ==
    (tool \in { "delete_dashboard", "delete_panel" } /\ Valid)
        => LET id == Get(args, "id")
           IN  /\ calls = << Call(IF tool = "delete_dashboard" THEN "deleteDashboard"
                                  ELSE "deletePanel", << id >>) >>
               /\ backend.ok =>
                    /\ ~result.isError
                    /\ Text = Str((IF tool = "delete_dashboard" THEN "Dashboard "
                                   ELSE "Panel ") \o id.s \o " deleted successfully")
                    /\ (tool = "delete_dashboard" /\ id = Str("dash-1"))
                          => Text = Str("Dashboard dash-1 deleted successfully")
                    /\ (tool = "delete_panel" /\ id = Str("panel-1"))
                          => Text = Str("Panel panel-1 deleted successfully")

\* delete_dashboard of dash-2 got a list back and still returned the message
C9_Witness ==
    /\ tool = "delete_dashboard"
    /\ backend.ok
    /\ backend.value = Obj(<< Prop("data", Arr(<< >>)) >>)
    /\ calls = << Call("deleteDashboard", << Str("dash-2") >>) >>
    /\ Text = Str("Dashboard dash-2 deleted successfully")

----------------------------------------------------------------------------
(* C10: delete_dashboards calls deleteDashboards once with the supplied    *)
(* ids array (same ids, same order) and, when the call succeeds, returns   *)
(* '<n> dashboards deleted successfully' with n the length of that array;  *)
(* delete_panels does the same with '<n> panels deleted successfully'.     *)

C10_DeleteMany ==
    (tool \in { "delete_dashboards", "delete_panels" } /\ Valid)
        => LET ids  == Get(args, "ids")
               noun == IF tool = "delete_dashboards" THEN "dashboards" ELSE "panels"
           IN  /\ calls = << Call(IF tool = "delete_dashboards" THEN "deleteDashboards"
                                  ELSE "deletePanels", << ids >>) >>
               /\ backend.ok =>
                    /\ ~result.isError
                    /\ Text = Str(ToString(Len(ids.a)) \o " " \o noun
                                  \o " deleted successfully")
                    /\ Len(ids.a) = 2 =>
                          Text = Str("2 " \o noun \o " deleted successfully")

\* delete_dashboards of dash-2 then dash-1: one call, in that order, and "2"
C10_Witness ==
    /\ tool = "delete_dashboards"
    /\ backend.ok
    /\ calls = << Call("deleteDashboards", << Arr(<< Str("dash-2"), Str("dash-1") >>) >>) >>
    /\ Text = Str("2 dashboards deleted successfully")

----------------------------------------------------------------------------
(* C11: each tool's input schema rejects an argument object that lacks one *)
(* of its required fields: id for the get, update and delete tools, name   *)
(* for create_dashboard, dashboards / panels for the batch tools, ids for  *)
(* delete_dashboards and delete_panels, and for create_panel each of       *)
(* dashboard, name, type, position_x, position_y, width and height, even   *)
(* when the other required fields are there.                               *)

C11_Required(name) ==
    CASE name \in { "get_dashboard", "update_dashboard", "delete_dashboard",
                    "get_panel", "update_panel", "delete_panel" } -> { "id" }
      [] name = "create_dashboard" -> { "name" }
      [] name \in { "create_dashboards", "update_dashboards" } -> { "dashboards" }
      [] name \in { "create_panels", "update_panels" } -> { "panels" }
      [] name \in { "delete_dashboards", "delete_panels" } -> { "ids" }
      [] name = "create_panel" ->
            { "dashboard", "name", "type", "position_x", "position_y",
              "width", "height" }
      [] OTHER -> { }

C11_MissingRequiredRejected ==
    (Invoked /\ args.t = "object" /\ C11_Required(tool) \ Keys(args) # { })
        => /\ ~SafeParse(Find(AllTools, tool).inputSchema, args).success
           /\ calls = << >>
           /\ result.isError

\* create_panel was invoked with every required field but width: rejected
C11_Witness ==
    /\ tool = "create_panel"
    /\ args.t = "object"
    /\ C11_Required(tool) \ Keys(args) = { "width" }
    /\ ~Valid
    /\ result.isError

----------------------------------------------------------------------------
(* C12: the handlers of get_dashboard, update_dashboard and                *)
(* delete_dashboard, and of the panel equivalents, take an id that is a    *)
(* plain non-empty string not in UUID form, such as 'dash-1': the backend  *)
(* is called with that id and the result is the success result, not a      *)
(* validation error.                                                       *)

C12_IdTools ==
    { "get_dashboard", "update_dashboard", "delete_dashboard",
      "get_panel", "update_panel", "delete_panel" }

\* a UUID is 36 characters long; these ids are not
C12_PlainIds == { id \in DashboardIds \cup PanelIds : Len(id.s) \in 1..35 }

----------------------------------------------------------------------------
(* A caller's session: handlers invoked one after another with the same    *)
(* client, which keeps recording; the caller sets how the client settles   *)
(* before each invocation.                                                 *)

MaxInvocations == 2

\* <<tool name, arguments>>, every one satisfying the tool's schema
SessionInputs ==
    { << "list_dashboards", Obj(<< >>) >>,
      << "list_dashboards", Obj(<< Prop("limit", Num(10)) >>) >>,
      << "get_dashboard", Obj(<< Prop("id", Str("dash-1")) >>) >>,
      << "create_dashboard", Obj(<< Prop("name", Str("New Dashboard")) >>) >>,
      << "create_dashboards",
         Obj(<< Prop("dashboards",
                     Arr(<< Obj(<< Prop("name", Str("Dashboard 1")) >>) >>)) >>) >>,
      << "update_dashboard",
         Obj(<< Prop("id", Str("dash-1")), Prop("name", Str("Updated")) >>) >>,
      << "update_dashboards",
         Obj(<< Prop("dashboards",
                     Arr(<< Obj(<< Prop("id", Str("dash-1")),
                                   Prop("name", Str("Updated")) >>) >>)) >>) >>,
      << "delete_dashboard", Obj(<< Prop("id", Str("dash-1")) >>) >>,
      << "delete_dashboards",
         Obj(<< Prop("ids", Arr(<< Str("dash-1"), Str("dash-2") >>)) >>) >>,
      << "list_panels", Obj(<< >>) >>,
      << "delete_panel", Obj(<< Prop("id", Str("panel-1")) >>) >>
    }

SessionClients ==
    { Resolved(Obj(<< Prop("data", Arr(<< >>)) >>)),
      Resolved(Obj(<< Prop("success", Bool(TRUE)) >>)),
      Rejected(Error("Error", "Network error")) }

\* one more `await tool.handler(client, args)` on the client in use
Reinvoke ==
    /\ Len(invocations) < MaxInvocations
    /\ \E in \in SessionInputs, c \in SessionClients :
          LET run == ToolHandler(Find(AllTools, in[1]), c, in[2])
          IN  /\ tool' = in[1]
              /\ args' = in[2]
              /\ backend' = c
              /\ calls' = run.calls
              /\ result' = run.result
              /\ invocations' = Append(invocations, Invocation(tool', args', backend', result'))
              /\ log' = log \o calls'

NextSession ==
    \/ BeforeEach
    \/ Reinvoke

SpecSession == Init /\ [][NextSession]_vars

----------------------------------------------------------------------------
(* C13: the tools keep no state between invocations.  For any sequence of  *)
(* invocations with valid arguments on one client, the client's calls are  *)
(* as many as the invocations and in their order, one call each; an        *)
(* invocation repeated with the same arguments calls the backend again;    *)
(* each result is determined by that invocation's arguments and that       *)
(* call's response alone.                                                  *)

C13_Method(name) ==
    CASE name \in Names(dashboardTools) -> C1_Method(name)
      [] name = "list_panels"   -> "listPanels"
      [] name = "get_panel"     -> "getPanel"
      [] name = "create_panel"  -> "createPanel"
      [] name = "create_panels" -> "createPanels"
      [] name = "update_panel"  -> "updatePanel"
      [] name = "update_panels" -> "updatePanels"
      [] name = "delete_panel"  -> "deletePanel"
      [] name = "delete_panels" -> "deletePanels"

C13_Arguments(name, a) ==
    CASE name \in { "list_dashboards", "list_panels",
                    "create_dashboard", "create_panel" } -> << a >>
      [] name \in { "get_dashboard", "update_dashboard",
                    "get_panel", "update_panel" } ->
            << Get(a, "id"), Rest(a, { "id" }) >>
      [] name \in { "create_dashboards", "update_dashboards" } ->
            << Get(a, "dashboards") >>
      [] name \in { "create_panels", "update_panels" } -> << Get(a, "panels") >>
      [] name \in { "delete_dashboard", "delete_panel" } -> << Get(a, "id") >>
      [] name \in { "delete_dashboards", "delete_panels" } -> << Get(a, "ids") >>

C13_SuccessText(name, a, response) ==
    CASE name = "delete_dashboard" ->
            Str("Dashboard " \o Get(a, "id").s \o " deleted successfully")
      [] name = "delete_panel" ->
            Str("Panel " \o Get(a, "id").s \o " deleted successfully")
      [] name = "delete_dashboards" ->
            Str(ToString(Len(Get(a, "ids").a)) \o " dashboards deleted successfully")
      [] name = "delete_panels" ->
            Str(ToString(Len(Get(a, "ids").a)) \o " panels deleted successfully")
      [] OTHER -> JSONStringify(response, 2)

C13_Stateless ==
    (\A i \in 1..Len(invocations) :
        SafeParse(Find(AllTools, invocations[i].tool).inputSchema,
                  invocations[i].args).success)
    => /\ Len(log) = Len(invocations)
       /\ \A i \in 1..Len(invocations) :
             LET inv == invocations[i]
             IN  /\ log[i].method = C13_Method(inv.tool)
                 /\ DeepEqual(Arr(log[i].arguments),
                              Arr(C13_Arguments(inv.tool, inv.args)))
                 /\ inv.result.isError = ~inv.backend.ok
                 /\ inv.result.content[1].text =
                       IF inv.backend.ok
                       THEN C13_SuccessText(inv.tool, inv.args, inv.backend.value)
                       ELSE Str(ErrorToString(inv.backend.reason))

\* list_dashboards ran twice with {} on one client: two calls, and the
\* second result is the second response, not the first
C13_Witness ==
    /\ Len(invocations) = 2
    /\ invocations[1].tool = "list_dashboards"
    /\ invocations[2].tool = "list_dashboards"
    /\ invocations[1].args = Obj(<< >>)
    /\ invocations[2].args = Obj(<< >>)
    /\ log = << Call("listDashboards", << Obj(<< >>) >>),
                Call("listDashboards", << Obj(<< >>) >>) >>
    /\ invocations[1].result.content[1].text = Str("{\n  \"data\": []\n}")
    /\ invocations[2].result.content[1].text = Str("{\n  \"success\": true\n}")

----------------------------------------------------------------------------
(* C14: batch validation is all-or-nothing.  create_dashboard rejects an   *)
(* empty name; create_dashboards holds every element to that schema and    *)
(* update_dashboards every element to the update schema, so when one       *)
(* element is invalid (no name, an empty name, or no id for an update) the *)
(* invocation is rejected and the batch method is not called at all, not   *)
(* even for the valid elements.                                            *)

C14_InvalidElement(name, e) ==
    \/ e.t # "object"
    \/ name = "create_dashboards" /\ (~HasKey(e, "name") \/ Get(e, "name") = Str(""))
    \/ name = "update_dashboards" /\ ~HasKey(e, "id")

C14_HasInvalidElement ==
    /\ tool \in { "create_dashboards", "update_dashboards" }
    /\ args.t = "object"
    /\ Get(args, "dashboards").t = "array"
    /\ \E i \in 1..Len(Get(args, "dashboards").a) :
          C14_InvalidElement(tool, Get(args, "dashboards").a[i])

C14_AllOrNothing ==
    /\ (tool = "create_dashboard" /\ args.t = "object" /\ Get(args, "name") = Str(""))
          => (calls = << >> /\ result.isError)
    /\ C14_HasInvalidElement => (calls = << >> /\ result.isError)

\* create_dashboards got a valid element followed by one with an empty
\* name: nothing was sent, the valid one included
C14_Witness ==
    /\ tool = "create_dashboards"
    /\ C14_HasInvalidElement
    /\ Len(Get(args, "dashboards").a) = 2
    /\ ~C14_InvalidElement(tool, Get(args, "dashboards").a[1])
    /\ Get(Get(args, "dashboards").a[2], "name") = Str("")
    /\ calls = << >>
    /\ result.isError

----------------------------------------------------------------------------
(* C15: the count in delete_dashboards' success message is the length of   *)
(* the submitted ids array and nothing else: an empty array is accepted,   *)
(* the backend is called once with [] and the text is '0 dashboards        *)
(* deleted successfully'; a repeated id counts each time; the count is the *)
(* same whatever the backend answered.                                     *)

C15_IdsSubmitted ==
    /\ tool = "delete_dashboards"
    /\ args.t = "object"
    /\ Get(args, "ids").t = "array"
    /\ \A i \in 1..Len(Get(args, "ids").a) : Get(args, "ids").a[i].t = "string"

C15_CountIsLength ==
    C15_IdsSubmitted
        => LET ids == Get(args, "ids").a
           IN  /\ calls = << Call("deleteDashboards", << Arr(ids) >>) >>
               /\ backend.ok =>
                    /\ ~result.isError
                    /\ \E n \in 0..(MaxBatch + 1) :
                          /\ n = Len(ids)
                          /\ Text = Str(ToString(n) \o " dashboards deleted successfully")
                    /\ ids = << >> => Text = Str("0 dashboards deleted successfully")
                    /\ ids = << Str("dash-1"), Str("dash-1") >>
                          => Text = Str("2 dashboards deleted successfully")

\* delete_dashboards of no id at all: one call with [], and "0"
C15_Witness ==
    /\ C15_IdsSubmitted
    /\ Get(args, "ids") = Arr(<< >>)
    /\ backend.ok
    /\ calls = << Call("deleteDashboards", << Arr(<< >>) >>) >>
    /\ ~result.isError
    /\ Text = Str("0 dashboards deleted successfully")

----------------------------------------------------------------------------
(* C16: dashboardTools holds exactly eight descriptors, named              *)
(* list_dashboards, get_dashboard, create_dashboard, create_dashboards,    *)
(* update_dashboard, update_dashboards, delete_dashboard and               *)
(* delete_dashboards, no name twice, so a lookup by name finds at most one *)
(* tool; each is tagged with the toolset 'dashboards' and no other.        *)

C16_Names ==
    { "list_dashboards", "get_dashboard", "create_dashboard", "create_dashboards",
      "update_dashboard", "update_dashboards", "delete_dashboard",
      "delete_dashboards" }

C16_Matches(name) == { i \in 1..Len(dashboardTools) : dashboardTools[i].name = name }

C16_EightDistinctTools ==
    /\ Len(dashboardTools) = 8
    /\ { dashboardTools[i].name : i \in 1..Len(dashboardTools) } = C16_Names
    /\ \A name \in C16_Names \cup { tool } : Cardinality(C16_Matches(name)) <= 1
    /\ \A i \in 1..Len(dashboardTools) : dashboardTools[i].toolsets = << "dashboards" >>
    /\ tool \in C16_Names =>
          /\ Cardinality(C16_Matches(tool)) = 1
          /\ Find(dashboardTools, tool).name = tool

\* delete_dashboards was looked up, found as the eighth and only match, and run
C16_Witness ==
    /\ tool = "delete_dashboards"
    /\ C16_Matches(tool) = { 8 }
    /\ Find(dashboardTools, tool) = dashboardTools[8]
    /\ Len(calls) = 1

====
